---------------------------- MODULE Spec2Model ----------------------------
(***************************************************************************)
(* SRS interpolation: conversion of a structured reference string from the *)
(* monomial basis to the Lagrange basis (srs_to_lagrange), with its        *)
(* butterfly round (fft_round), twist (distribute_powers) and index        *)
(* permutation (bit_reverse).                                              *)
(*                                                                         *)
(* The library is generic in the curve E and its scalar field F.  The      *)
(* model instantiates it with the short Weierstrass curve                  *)
(*     y^2 = x^3 + 2x + 4  over GF(11),                                    *)
(* whose group has prime order 17, so that F = GF(17) (two-adicity 4).     *)
(***************************************************************************)
EXTENDS Integers, Sequences, FiniteSets, TLC

VARIABLES
    points,          \* srs_to_lagrange: the caller's input slice
    pc,              \* position in srs_to_lagrange / fft_round
    log_point_size,  \* srs_to_lagrange: local
    ordered_points,  \* srs_to_lagrange: the mutable working copy
    domain,          \* srs_to_lagrange: the evaluation domain ("none" until built)
    round,           \* srs_to_lagrange: loop variable i of the round loop
    scratch_x,       \* fft_round: local
    scratch_y,       \* fft_round: local
    acc,             \* fft_round: batch_inversion_accumulator
    pending,         \* fft_round: blocks the running phase has not processed yet
    j,               \* fft_round: inner loop variable of the block being processed
    result,          \* srs_to_lagrange: the returned value
    round_in,        \* history: ordered_points when the current round was entered
    inversions,      \* history: inversions performed in the current round
    fwd_order,       \* history: blocks in the order the forward pass took them
    bwd_order,       \* history: blocks in the order the backward pass took them
    br_pc,           \* bit_reverse driver: position
    br_log_n,        \* bit_reverse driver: argument log_n
    br_index,        \* bit_reverse driver: argument index
    br_m,            \* bit_reverse driver: bit_reverse(index, log_n)
    br_back          \* bit_reverse driver: bit_reverse(m, log_n)

mainvars == <<points, pc, log_point_size, ordered_points, domain, round,
              scratch_x, scratch_y, acc, pending, j, result, round_in,
              inversions, fwd_order, bwd_order>>
brvars == <<br_pc, br_log_n, br_index, br_m, br_back>>
vars == <<mainvars, brvars>>

---------------------------------------------------------------------------
(* Bounds of the model.                                                    *)

\* Longest input sequence handed to srs_to_lagrange.
MaxLen == 8
\* Number of generators G the input SRS are built from.
NumGens == 2
\* Inputs also include SRS with one entry multiplied by c, c in 2..MaxCorrupt.
MaxCorrupt == 3
\* Largest log_n handed to bit_reverse.
MaxLogN == 20
\* For log_n > 2*SampleBits the indices tried are those whose set bits lie in
\* the top SampleBits or the bottom SampleBits positions.
SampleBits == 6

---------------------------------------------------------------------------
(* Arithmetic helpers.                                                     *)

RECURSIVE Pow2(_)
Pow2(e) == IF e = 0 THEN 1 ELSE 2 * Pow2(e - 1)

RECURSIVE ILog2(_)
\* usize::ilog2 for n >= 1: floor of the binary logarithm.
ILog2(n) == IF n < 2 THEN 0 ELSE 1 + ILog2(n \div 2)

RECURSIVE PowMod(_, _, _)
PowMod(b, e, m) == IF e = 0 THEN 1 % m ELSE (b * PowMod(b, e - 1, m)) % m

---------------------------------------------------------------------------
(* bit_reverse (utils.rs).                                                 *)

BYTE_SWAP_TABLE ==
  << 0, 128, 64, 192, 32, 160, 96, 224, 16, 144, 80, 208, 48, 176, 112, 240, 8, 136, 72, 200, 40,
     168, 104, 232, 24, 152, 88, 216, 56, 184, 120, 248, 4, 132, 68, 196, 36, 164, 100, 228, 20,
     148, 84, 212, 52, 180, 116, 244, 12, 140, 76, 204, 44, 172, 108, 236, 28, 156, 92, 220, 60,
     188, 124, 252, 2, 130, 66, 194, 34, 162, 98, 226, 18, 146, 82, 210, 50, 178, 114, 242, 10, 138,
     74, 202, 42, 170, 106, 234, 26, 154, 90, 218, 58, 186, 122, 250, 6, 134, 70, 198, 38, 166, 102,
     230, 22, 150, 86, 214, 54, 182, 118, 246, 14, 142, 78, 206, 46, 174, 110, 238, 30, 158, 94,
     222, 62, 190, 126, 254, 1, 129, 65, 193, 33, 161, 97, 225, 17, 145, 81, 209, 49, 177, 113, 241,
     9, 137, 73, 201, 41, 169, 105, 233, 25, 153, 89, 217, 57, 185, 121, 249, 5, 133, 69, 197, 37,
     165, 101, 229, 21, 149, 85, 213, 53, 181, 117, 245, 13, 141, 77, 205, 45, 173, 109, 237, 29,
     157, 93, 221, 61, 189, 125, 253, 3, 131, 67, 195, 35, 163, 99, 227, 19, 147, 83, 211, 51, 179,
     115, 243, 11, 139, 75, 203, 43, 171, 107, 235, 27, 155, 91, 219, 59, 187, 123, 251, 7, 135, 71,
     199, 39, 167, 103, 231, 23, 151, 87, 215, 55, 183, 119, 247, 15, 143, 79, 207, 47, 175, 111,
     239, 31, 159, 95, 223, 63, 191, 127, 255 >>

\* BYTE_SWAP_TABLE[b as usize] (the Rust array is 0-based).
ByteSwap(b) == BYTE_SWAP_TABLE[b + 1]

RECURSIVE Pow256(_)
Pow256(e) == IF e = 0 THEN 1 ELSE 256 * Pow256(e - 1)

\* index.to_le_bytes()[k], k in 0..7 (usize is 64 bits wide).
LeByte(index, k) == (index \div Pow256(k)) % 256

RECURSIVE FromLeBytes(_)
\* usize::from_le_bytes of a byte sequence.
FromLeBytes(bs) ==
    IF bs = << >> THEN 0 ELSE Head(bs) + 256 * FromLeBytes(Tail(bs))

\* Vec::resize(n, 0): truncate or pad with zeros.
Resize(bs, n) == [k \in 1..n |-> IF k <= Len(bs) THEN bs[k] ELSE 0]

\* A shift that leaves a value alone when log_n is a multiple of 8.
ShiftOutPartialOnly(value, leftover) == value \div Pow2((8 - leftover) % 8)

\* result >> (8 - leftover)
ShiftOut(value, leftover) == value \div Pow2(8 - leftover)

\* The whole bytes pushed in ascending instead of descending order.
PushedAscending(index, num_bytes) ==
    [k \in 1..num_bytes |-> ByteSwap(LeByte(index, k - 1))]

\* The bytes pushed by the loop `for i in 0..num_bytes`:
\* BYTE_SWAP_TABLE[bytes[num_bytes - 1 - i]].
PushedBytes(index, num_bytes) ==
    [k \in 1..num_bytes |-> ByteSwap(LeByte(index, num_bytes - k))]

bit_reverse(index, log_n) ==
    LET num_bytes == log_n \div 8
        leftover == log_n % 8
        pushed == << ByteSwap(LeByte(index, num_bytes)) >>
                    \o PushedBytes(index, num_bytes)
        reversed_bytes == Resize(pushed, 8)
    IN  IF Len(reversed_bytes) # 8
          THEN [ok |-> FALSE, err |-> "InvalidParameters", val |-> 0]
          ELSE [ok |-> TRUE, err |-> "",
                val |-> ShiftOut(FromLeBytes(reversed_bytes), leftover)]

---------------------------------------------------------------------------
(* The base field GF(P) of the curve and the scalar field GF(R).           *)

\* Modulus of E::BaseField.
P == 11
\* Modulus of F = E::ScalarField, the prime order of the curve group.
R == 17
\* Coefficients of the curve y^2 = x^3 + CurveA*x + CurveB.
CurveA == 2
CurveB == 4
\* F::TWO_ADICITY and F::TWO_ADIC_ROOT_OF_UNITY: 3 has order 16 = 2^4 in GF(17).
TwoAdicity == 4
TwoAdicRoot == 3

FAdd(a, b) == (a + b) % P
FSub(a, b) == (a + P - b) % P
FMul(a, b) == (a * b) % P
FNeg(a) == (P - a) % P
\* Field::inverse(): None for zero (here 0), Some(a^-1) otherwise.
FInv(a) == IF a = 0 THEN 0 ELSE CHOOSE x \in 1..(P - 1) : (a * x) % P = 1

SMul(a, b) == (a * b) % R
SPow(b, e) == PowMod(b, e, R)
SInv(a) == IF a % R = 0 THEN 0 ELSE CHOOSE x \in 1..(R - 1) : (a * x) % R = 1

---------------------------------------------------------------------------
(* Affine points and the group law of the curve (the collaborator's        *)
(* addition, negation, scalar multiplication and into_affine).             *)

Pt(x, y) == [x |-> x, y |-> y, infinity |-> FALSE]

\* Affine::identity()
Identity == [x |-> 0, y |-> 0, infinity |-> TRUE]

OnCurve(x, y) == (y * y) % P = (x * x * x + CurveA * x + CurveB) % P

FinitePoints ==
    {pt \in [x : 0..(P - 1), y : 0..(P - 1), infinity : {FALSE}] :
         OnCurve(pt.x, pt.y)}

GNeg(A) == IF A.infinity THEN A ELSE Pt(A.x, FNeg(A.y))

GAdd(A, B) ==
    IF A.infinity THEN B
    ELSE IF B.infinity THEN A
    ELSE IF A.x = B.x /\ FAdd(A.y, B.y) = 0 THEN Identity
    ELSE LET lambda == IF A.x = B.x
                         THEN FMul(FAdd(FMul(3, FMul(A.x, A.x)), CurveA),
                                   FInv(FMul(2, A.y)))
                         ELSE FMul(FSub(B.y, A.y), FInv(FSub(B.x, A.x)))
             x3 == FSub(FSub(FMul(lambda, lambda), A.x), B.x)
             y3 == FSub(FMul(lambda, FSub(A.x, x3)), A.y)
         IN  Pt(x3, y3)

RECURSIVE ScalarMul(_, _)
\* (point * scalar).into_affine(), the scalar an element of GF(R).
ScalarMul(A, k) == IF k = 0 THEN Identity ELSE GAdd(A, ScalarMul(A, k - 1))

---------------------------------------------------------------------------
(* The evaluation domain (Radix2EvaluationDomain over F).                  *)

NoDomain == [size |-> 0, group_gen |-> 0, group_gen_inv |-> 0,
             size_as_field_element |-> 0]

\* Radix2EvaluationDomain::<F>::new(num_coeffs): None (NoDomain) when the
\* field has no subgroup of that size.
DomainNew(num_coeffs) ==
    LET log_size == IF Pow2(ILog2(num_coeffs)) = num_coeffs
                      THEN ILog2(num_coeffs) ELSE ILog2(num_coeffs) + 1
        gen == SPow(TwoAdicRoot, Pow2(TwoAdicity - log_size))
    IN  IF log_size > TwoAdicity THEN NoDomain
        ELSE [size |-> Pow2(log_size), group_gen |-> gen,
              group_gen_inv |-> SInv(gen),
              size_as_field_element |-> Pow2(log_size) % R]

\* lib.rs: prim_root = gen.pow(&[(point_size >> i) as u64])
PrimRoot(gen, point_size, i) == SPow(gen, point_size \div Pow2(i))

---------------------------------------------------------------------------
(* distribute_powers and the two passes of fft_round (utils.rs).           *)

\* Powers that start at g^0 on the second element, one step late.
TwistPowerLate(g, m) == SPow(g, m - 1)

\* The value of `pow` when distribute_powers visits element m >= 1 of coeffs.
TwistPower(g, m) == SPow(g, m)

\* distribute_powers(coeffs, g) on a 1-based sequence: element 0 of the slice
\* is skipped, element m >= 1 becomes (coeff * g^m).into_affine().
distribute_powers(coeffs, g) ==
    [m \in 1..Len(coeffs) |->
        IF m = 1 THEN coeffs[m] ELSE ScalarMul(coeffs[m], TwistPower(g, m - 1))]

\* The closure of cfg_chunks_mut!(points, k) for chunk b:
\* distribute_powers(&mut points[half..], g).
TwistBlock(pts, k, b, g) ==
    LET half == k \div 2
        first == k * b + half
        upper == distribute_powers(SubSeq(pts, first + 1, first + half), g)
    IN  [m \in 1..Len(pts) |->
            IF m > first /\ m <= first + half THEN upper[m - first] ELSE pts[m]]

RECURSIVE TwistBlocks(_, _, _, _)
\* The chunks 0..nb-1 twisted.
TwistBlocks(pts, k, nb, g) ==
    IF nb = 0 THEN pts ELSE TwistBlock(TwistBlocks(pts, k, nb - 1, g), k, nb - 1, g)

\* A scratch slot addressed by the position alone, shared by all blocks.
ScratchIdxShared(half, b, jj) == jj

\* half * i + j, the scratch slot of pair jj of chunk b.
ScratchIdx(half, b, jj) == half * b + jj

\* The state fft_round works on.
RoundState(pts, sx, sy, a) == [pts |-> pts, sx |-> sx, sy |-> sy, acc |-> a]

\* let len = points.len() / k, the accumulator and the zeroed scratch vectors.
InitRoundState(pts, k) ==
    LET len == Len(pts) \div k
        half == k \div 2
    IN  RoundState(pts, [s \in 1..(len * half) |-> 0],
                   [s \in 1..(len * half) |-> 0], 1)

\* The accumulator left untouched by a backward step.
BwdAccKept(a, x) == a

\* Backward pass: batch_inversion_accumulator *= points_chunk[j + half].x
BwdAccUpdate(a, x) == FMul(a, x)

\* Body of the forward loop for pair jj of chunk b (chunks of k points).
FwdPair(rs, k, b, jj) ==
    LET half == k \div 2
        i1 == k * b + jj + 1
        i2 == i1 + half
        s == ScratchIdx(half, b, jj) + 1
        p1 == rs.pts[i1]
        p2 == rs.pts[i2]
        sx1 == FAdd(rs.sx[s], FAdd(p1.x, p2.x))
        sy1 == FAdd(rs.sy[s], FSub(p2.y, p1.y))
        x2 == FSub(p2.x, p1.x)
        y2 == FMul(FAdd(p2.y, p1.y), FNeg(rs.acc))
        sy2 == FMul(sy1, rs.acc)
    IN  [pts |-> [rs.pts EXCEPT ![i2] = [p2 EXCEPT !.x = x2, !.y = y2]],
         sx |-> [rs.sx EXCEPT ![s] = sx1],
         sy |-> [rs.sy EXCEPT ![s] = sy2],
         acc |-> FMul(rs.acc, x2)]

\* Body of the backward loop for pair jj of chunk b.
BwdPair(rs, k, b, jj) ==
    LET half == k \div 2
        i1 == k * b + jj + 1
        i2 == i1 + half
        s == ScratchIdx(half, b, jj) + 1
        p1 == rs.pts[i1]
        p2 == rs.pts[i2]
        slope_sub == FMul(p2.y, rs.acc)
        slope_add == FMul(rs.sy[s], rs.acc)
        x_sub == FSub(FMul(slope_sub, slope_sub), rs.sx[s])
        y_sub == FSub(FMul(slope_sub, FSub(p1.x, x_sub)), p1.y)
        x_add == FSub(FMul(slope_add, slope_add), rs.sx[s])
        y_add == FSub(FMul(slope_add, FSub(p1.x, x_add)), p1.y)
    IN  [pts |-> [rs.pts EXCEPT ![i1] = [p1 EXCEPT !.x = x_add, !.y = y_add],
                                ![i2] = [p2 EXCEPT !.x = x_sub, !.y = y_sub]],
         sx |-> rs.sx,
         sy |-> [rs.sy EXCEPT ![s] = slope_add],
         acc |-> BwdAccUpdate(rs.acc, p2.x)]

RECURSIVE FwdPairs(_, _, _, _)
\* Pairs 0..n-1 of chunk b, in ascending order.
FwdPairs(rs, k, b, n) ==
    IF n = 0 THEN rs ELSE FwdPair(FwdPairs(rs, k, b, n - 1), k, b, n - 1)

\* The forward closure on chunk b: for j in 0..half.
FwdBlock(rs, k, b) == FwdPairs(rs, k, b, k \div 2)

RECURSIVE BwdPairs(_, _, _, _)
\* Pairs half-1 down to from of chunk b, in descending order.
BwdPairs(rs, k, b, from) ==
    IF from >= k \div 2 THEN rs
    ELSE BwdPair(BwdPairs(rs, k, b, from + 1), k, b, from)

\* The backward closure on chunk b: for j in (0..half).rev().
BwdBlock(rs, k, b) == BwdPairs(rs, k, b, 0)

RECURSIVE FwdBlocks(_, _, _)
\* The forward pass over chunks 0..nb-1 in ascending order.
FwdBlocks(rs, k, nb) ==
    IF nb = 0 THEN rs ELSE FwdBlock(FwdBlocks(rs, k, nb - 1), k, nb - 1)

RECURSIVE BwdBlocks(_, _, _, _)
\* The backward pass over chunks nb-1 down to from in descending order.
BwdBlocks(rs, k, nb, from) ==
    IF from >= nb THEN rs
    ELSE BwdBlock(BwdBlocks(rs, k, nb, from + 1), k, from)

\* IS_FIRST_ROUND as srs_to_lagrange instantiates it.
IsFirstRound(i) == i = 1

\* fft_round as one function, for rounds that do not fail:
\* [ok, pts] with ok false when the accumulator has no inverse.
fft_round(pts, g, round_number) ==
    LET k == Pow2(round_number)
        nb == Len(pts) \div k
        twisted == IF IsFirstRound(round_number) THEN pts
                   ELSE TwistBlocks(pts, k, nb, g)
        fwd == FwdBlocks(InitRoundState(twisted, k), k, nb)
        inv == [fwd EXCEPT !.acc = FInv(fwd.acc)]
    IN  IF fwd.acc = 0 THEN [ok |-> FALSE, pts |-> fwd.pts]
        ELSE [ok |-> TRUE, pts |-> BwdBlocks(inv, k, nb, 0).pts]

---------------------------------------------------------------------------
(* Inputs.                                                                 *)

\* The first finite point of the curve, (0, 2), and the generators used.
BasePoint == Pt(0, 2)
Gens == {ScalarMul(BasePoint, e) : e \in 1..NumGens}

\* [s^0]B, [s^1]B, ..., [s^(n-1)]B for the generator B = base, with entry
\* pos multiplied by c (c = 1: the SRS of secret s over that generator).
InputSRS(n, s, base, pos, c) ==
    [m \in 1..n |->
        ScalarMul(base, SMul(SPow(s, m - 1), IF m - 1 = pos THEN c ELSE 1))]

\* The empty slice, every single point, and for each length 2..MaxLen the SRS
\* of every nonzero secret, intact or with one entry scaled.  The entries of
\* a sequence of two or more points are finite: fft_round works on the x and
\* y fields alone, for points that have affine coordinates.
Inputs ==
    {<< >>} \cup {<<pt>> : pt \in FinitePoints \cup {Identity}} \cup
    UNION {{InputSRS(n, s, base, pos, c) :
                s \in 1..(R - 1), base \in Gens, pos \in 0..(n - 1),
                c \in 1..MaxCorrupt} : n \in 2..MaxLen}

\* SRS of power-of-two length >= 4, the rounds of which have several pairs.
ParInputs ==
    {InputSRS(Pow2(l), s, base, 0, 1) :
        l \in 2..ILog2(MaxLen), s \in 1..(R - 1), base \in Gens}

---------------------------------------------------------------------------
(* srs_to_lagrange (lib.rs) as a state machine.                            *)

NoResult == [tag |-> "None", err |-> "", val |-> << >>]
Ok(v) == [tag |-> "Ok", err |-> "", val |-> v]
Err(e) == [tag |-> "Err", err |-> e, val |-> << >>]

\* A length check that only rejects lengths below the power of two.
SizeBelow(len, point_size) == len < point_size

\* lib.rs: points.len() != point_size
SizeMismatch(len, point_size) == len # point_size

\* No early return for a single point.
SinglePointNever(len) == FALSE

\* lib.rs: points.len() == 1
SinglePoint(len) == len = 1

\* An inversion treated as always succeeding.
InverseNeverFails(a) == FALSE

\* Field::inverse() returns None: .ok_or(FieldError)? returns the error.
InverseFails(a) == a = 0

\* No rescale: every point multiplied by one.
RescaleByOne(d) == 1

\* lib.rs: domain_size_inv = domain.size_as_field_element.inverse()
DomainSizeInv(d) == SInv(d.size_as_field_element)

K == Pow2(round)
Half == K \div 2
NumBlocks == Len(ordered_points) \div K
AllBlocks == 0..(NumBlocks - 1)
\* The parameter g of the running fft_round.
G == PrimRoot(domain.group_gen_inv, Pow2(log_point_size), round)

Min(S) == CHOOSE a \in S : \A b \in S : a <= b
Max(S) == CHOOSE a \in S : \A b \in S : a >= b

RS == RoundState(ordered_points, scratch_x, scratch_y, acc)
SetRS(rs) ==
    /\ ordered_points' = rs.pts
    /\ scratch_x' = rs.sx
    /\ scratch_y' = rs.sy
    /\ acc' = rs.acc

InitMain(inputs) ==
    /\ points \in inputs
    /\ pc = "start"
    /\ log_point_size = 0
    /\ ordered_points = << >>
    /\ domain = NoDomain
    /\ round = 0
    /\ scratch_x = << >>
    /\ scratch_y = << >>
    /\ acc = 0
    /\ pending = {}
    /\ j = 0
    /\ result = NoResult
    /\ round_in = << >>
    /\ inversions = 0
    /\ fwd_order = << >>
    /\ bwd_order = << >>

\* No bit_reverse result yet.
BrNone == [ok |-> FALSE, err |-> "", val |-> 0]

BrIdle ==
    /\ br_pc = "off"
    /\ br_log_n = 0
    /\ br_index = 0
    /\ br_m = BrNone
    /\ br_back = BrNone

Init == InitMain(Inputs) /\ BrIdle

\* lib.rs 25-34: the length check and the single-point return.  ilog2 of a
\* zero length panics.
Validate ==
    /\ pc = "start"
    /\ IF Len(points) = 0
         THEN /\ pc' = "panicked"
              /\ UNCHANGED <<log_point_size, result>>
         ELSE LET log == ILog2(Len(points))
                  point_size == Pow2(log)
              IN  /\ log_point_size' = log
                  /\ IF SizeMismatch(Len(points), point_size)
                       THEN pc' = "done" /\ result' = Err("SizeError")
                       ELSE IF SinglePoint(Len(points))
                              THEN pc' = "done" /\ result' = Ok(points)
                              ELSE pc' = "order" /\ UNCHANGED result
    /\ UNCHANGED <<points, ordered_points, domain, round, scratch_x, scratch_y,
                   acc, pending, j, round_in, inversions, fwd_order, bwd_order>>
    /\ UNCHANGED brvars

\* lib.rs 37-39: the bit-reversed copy.
BuildOrdered ==
    /\ pc = "order"
    /\ LET n == Len(points)
           idx == [m \in 1..n |-> bit_reverse(m - 1, log_point_size)]
       IN  IF \E m \in 1..n : ~idx[m].ok
             THEN /\ pc' = "done"
                  /\ result' = Err("InvalidParameters")
                  /\ UNCHANGED ordered_points
             ELSE IF \E m \in 1..n : idx[m].val >= n
                    THEN /\ pc' = "panicked"
                         /\ UNCHANGED <<result, ordered_points>>
                    ELSE /\ pc' = "domain"
                         /\ ordered_points' = [m \in 1..n |-> points[idx[m].val + 1]]
                         /\ UNCHANGED result
    /\ UNCHANGED <<points, log_point_size, domain, round, scratch_x, scratch_y,
                   acc, pending, j, round_in, inversions, fwd_order, bwd_order>>
    /\ UNCHANGED brvars

\* lib.rs 42-44: the domain and its inverse generator.
BuildDomain ==
    /\ pc = "domain"
    /\ LET d == DomainNew(Pow2(log_point_size))
       IN  IF d = NoDomain
             THEN /\ pc' = "done"
                  /\ result' = Err("SizeError")
                  /\ UNCHANGED <<domain, round>>
             ELSE /\ pc' = "round"
                  /\ domain' = d
                  /\ round' = 1
                  /\ UNCHANGED result
    /\ UNCHANGED <<points, log_point_size, ordered_points, scratch_x, scratch_y,
                   acc, pending, j, round_in, inversions, fwd_order, bwd_order>>
    /\ UNCHANGED brvars

\* lib.rs 47-55 and utils.rs 72-85: the head of the round loop and the entry
\* of fft_round; in the first round the twist is compiled out.
RoundHead ==
    /\ pc = "round"
    /\ IF round > log_point_size
         THEN /\ pc' = "rescale"
              /\ UNCHANGED <<ordered_points, scratch_x, scratch_y, acc, pending,
                             j, round_in, inversions, fwd_order, bwd_order>>
         ELSE /\ round_in' = ordered_points
              /\ inversions' = 0
              /\ fwd_order' = << >>
              /\ bwd_order' = << >>
              /\ pending' = AllBlocks
              /\ j' = 0
              /\ IF IsFirstRound(round)
                   THEN /\ pc' = "forward"
                        /\ SetRS(InitRoundState(ordered_points, K))
                   ELSE /\ pc' = "twist"
                        /\ UNCHANGED <<ordered_points, scratch_x, scratch_y, acc>>
    /\ UNCHANGED <<points, log_point_size, domain, round, result>>
    /\ UNCHANGED brvars

\* utils.rs 75-85: every chunk twisted, then the accumulator and scratch set up.
Twist ==
    /\ pc = "twist"
    /\ SetRS(InitRoundState(TwistBlocks(ordered_points, K, NumBlocks, G), K))
    /\ pending' = AllBlocks
    /\ pc' = "forward"
    /\ UNCHANGED <<points, log_point_size, domain, round, j, result, round_in,
                   inversions, fwd_order, bwd_order>>
    /\ UNCHANGED brvars

\* utils.rs 86-106: one iteration of the forward loop, chunks ascending.
ForwardStep ==
    /\ pc = "forward"
    /\ LET b == Min(pending)
       IN  /\ SetRS(FwdPair(RS, K, b, j))
           /\ IF j + 1 < Half
                THEN /\ j' = j + 1
                     /\ UNCHANGED <<pending, fwd_order, pc>>
                ELSE /\ j' = 0
                     /\ pending' = pending \ {b}
                     /\ fwd_order' = Append(fwd_order, b)
                     /\ pc' = IF pending = {b} THEN "invert" ELSE "forward"
    /\ UNCHANGED <<points, log_point_size, domain, round, result, round_in,
                   inversions, bwd_order>>
    /\ UNCHANGED brvars

\* utils.rs 108-113: the single inversion of the accumulator.
Invert ==
    /\ pc = "invert"
    /\ IF InverseFails(acc)
         THEN /\ pc' = "done"
              /\ result' = Err("FieldError")
              /\ UNCHANGED <<acc, inversions, pending, j>>
         ELSE /\ pc' = "backward"
              /\ acc' = FInv(acc)
              /\ inversions' = inversions + 1
              /\ pending' = AllBlocks
              /\ j' = Half - 1
              /\ UNCHANGED result
    /\ UNCHANGED <<points, log_point_size, ordered_points, domain, round,
                   scratch_x, scratch_y, round_in, fwd_order, bwd_order>>
    /\ UNCHANGED brvars

\* utils.rs 115-142: one iteration of the backward loop, chunks descending;
\* after the last one fft_round returns Ok and the round loop advances.
BackwardStep ==
    /\ pc = "backward"
    /\ LET b == Max(pending)
       IN  /\ SetRS(BwdPair(RS, K, b, j))
           /\ IF j > 0
                THEN /\ j' = j - 1
                     /\ UNCHANGED <<pending, bwd_order, pc, round>>
                ELSE /\ j' = Half - 1
                     /\ pending' = pending \ {b}
                     /\ bwd_order' = Append(bwd_order, b)
                     /\ pc' = IF pending = {b} THEN "round" ELSE "backward"
                     /\ round' = IF pending = {b} THEN round + 1 ELSE round
    /\ UNCHANGED <<points, log_point_size, domain, result, round_in,
                   inversions, fwd_order>>
    /\ UNCHANGED brvars

\* lib.rs 57-67: the rescale by the inverse of the domain size.
Rescale ==
    /\ pc = "rescale"
    /\ IF domain.size_as_field_element % R = 0
         THEN result' = Err("FieldError")
         ELSE result' = Ok([m \in 1..Len(ordered_points) |->
                              ScalarMul(ordered_points[m], DomainSizeInv(domain))])
    /\ pc' = "done"
    /\ UNCHANGED <<points, log_point_size, ordered_points, domain, round,
                   scratch_x, scratch_y, acc, pending, j, round_in, inversions,
                   fwd_order, bwd_order>>
    /\ UNCHANGED brvars

Next ==
    \/ Validate
    \/ BuildOrdered
    \/ BuildDomain
    \/ RoundHead
    \/ Twist
    \/ ForwardStep
    \/ Invert
    \/ BackwardStep
    \/ Rescale

Spec == Init /\ [][Next]_vars

---------------------------------------------------------------------------
(* Reference notions the properties are stated with.                       *)

IsPowerOfTwo(n) == \E e \in 0..n : Pow2(e) = n

\* The SRS of some nonzero secret over some generator.
IsSRS(pts) ==
    \E s \in 1..(R - 1), gen \in Gens : pts = InputSRS(Len(pts), s, gen, 0, 1)

RECURSIVE GSum(_, _, _)
\* Sum over m in 1..n of [scalars[m]] pts[m], by the group law.
GSum(pts, scalars, n) ==
    IF n = 0 THEN Identity
    ELSE GAdd(GSum(pts, scalars, n - 1), ScalarMul(pts[n], scalars[n]))

\* The weighted sum (multi-scalar multiplication) of pts against scalars.
MSM(pts, scalars) == GSum(pts, scalars, Len(pts))

RECURSIVE SSum(_, _)
\* Sum of f[1..n] in GF(R).
SSum(f, n) == IF n = 0 THEN 0 ELSE (SSum(f, n - 1) + f[n]) % R

\* Inverse FFT of the evaluations v over the domain generated by w:
\* coefficient jj is n^-1 * sum over i of v[i] * w^(-i*jj).
IFFT(v, w) ==
    LET n == Len(v)
    IN  [m \in 1..n |->
            SMul(SInv(n % R),
                 SSum([i \in 1..n |-> SMul(v[i], SPow(SInv(w), (i - 1) * (m - 1)))], n))]

\* n^-1 * sum over jj of w^(-i*jj) * input[jj], for the 0-based position i.
LagrangePoint(input, w, i) ==
    LET n == Len(input)
    IN  ScalarMul(MSM(input, [m \in 1..n |-> SPow(SInv(w), i * (m - 1))]),
                  SInv(n % R))

\* Evaluation vectors of length n: the unit vectors, all ones, and a ramp.
EvalVectors(n) ==
    {[m \in 1..n |-> IF m = u THEN 1 ELSE 0] : u \in 1..n}
        \cup {[m \in 1..n |-> 1], [m \in 1..n |-> m % R]}

\* Round rr on chunks of Pow2(rr) points: the first point P of pair jj of
\* chunk b, and its second point T after the twist by g^jj.
PairP(pts, rr, b, jj) == pts[Pow2(rr) * b + jj + 1]
PairT(pts, rr, g, b, jj) ==
    LET q == pts[Pow2(rr) * b + jj + Pow2(rr) \div 2 + 1]
    IN  IF jj = 0 \/ rr = 1 THEN q ELSE ScalarMul(q, SPow(g, jj))

BlocksOf(pts, rr) == 0..(Len(pts) \div Pow2(rr) - 1)
PairsOf(rr) == 0..(Pow2(rr) \div 2 - 1)

\* Some pair combined in round rr shares an x-coordinate.
SomePairSharesX(pts, rr, g) ==
    \E b \in BlocksOf(pts, rr), jj \in PairsOf(rr) :
        PairP(pts, rr, b, jj).x = PairT(pts, rr, g, b, jj).x

\* x2 - x1 of pair jj of chunk b.
DeltaX(pts, rr, g, b, jj) ==
    FSub(PairT(pts, rr, g, b, jj).x, PairP(pts, rr, b, jj).x)

RECURSIVE DeltaProduct(_, _, _, _)
\* Product of x2 - x1 over the first n pairs in forward order.
DeltaProduct(pts, rr, g, n) ==
    IF n = 0 THEN 1
    ELSE FMul(DeltaProduct(pts, rr, g, n - 1),
              DeltaX(pts, rr, g, (n - 1) \div (Pow2(rr) \div 2),
                     (n - 1) % (Pow2(rr) \div 2)))

---------------------------------------------------------------------------
(* Properties of srs_to_lagrange and fft_round.                            *)

\* C1: for an input of power-of-two length n >= 2 on which no round fails,
\* srs_to_lagrange returns n points L with L[i] = n^-1 * sum_j w^(-i*j) *
\* input[j], w the domain's primitive n-th root of unity, and for every
\* evaluation vector v the weighted sum of L against v is the weighted sum of
\* the input against the inverse FFT of v.
C1_CommitmentEquivalence ==
    (Len(points) >= 2 /\ IsPowerOfTwo(Len(points))) =>
        /\ pc # "panicked"
        /\ pc = "done" => result.tag = "Ok" \/ result = Err("FieldError")
        /\ (pc = "done" /\ result.tag = "Ok") =>
              LET n == Len(points)
                  w == domain.group_gen
                  L == result.val
              IN  /\ Len(L) = n
                  /\ SPow(w, n) = 1 /\ SPow(w, n \div 2) # 1
                  /\ \A i \in 0..(n - 1) : L[i + 1] = LagrangePoint(points, w, i)
                  /\ \A v \in EvalVectors(n) : MSM(L, v) = MSM(points, IFFT(v, w))

C1_Witness ==
    /\ pc = "done"
    /\ result.tag = "Ok"
    /\ Len(points) = 8
    /\ IsSRS(points)

\* C2: a positive length that is not a power of two yields SizeError, with
\* no bit-reversed copy, no domain and no round before it.
C2_SizeError ==
    (Len(points) > 0 /\ ~IsPowerOfTwo(Len(points))) =>
        /\ pc \in {"start", "done"}
        /\ pc = "done" => result = Err("SizeError")
        /\ ordered_points = << >>
        /\ domain = NoDomain
        /\ round = 0
        /\ inversions = 0

C2_Witness ==
    /\ pc = "done"
    /\ Len(points) = 6
    /\ result = Err("SizeError")

\* C3: the empty sequence yields SizeError.
C3_EmptySizeError ==
    (Len(points) = 0 /\ pc # "start") =>
        (pc = "done" /\ result = Err("SizeError"))

\* C6: a sequence of length 1 is returned unchanged, with no round and no
\* rescale.
C6_FixedPoint ==
    Len(points) = 1 =>
        /\ pc \in {"start", "done"}
        /\ pc = "done" => result = Ok(points)
        /\ ordered_points = << >>
        /\ domain = NoDomain
        /\ round = 0
        /\ inversions = 0

C6_Witness ==
    /\ pc = "done"
    /\ Len(points) = 1
    /\ points[1].infinity
    /\ result = Ok(points)

\* C7: when every pair of a round has distinct x-coordinates the round does
\* not fail, and it leaves P + T in slot j and P - T in slot j + half of every
\* chunk, P the chunk's point at j and T its point at j + half times g^j.
C7_Butterfly ==
    /\ (pc = "invert" /\ ~SomePairSharesX(round_in, round, G)) => acc # 0
    /\ (pc = "round" /\ round >= 2) =>
          LET rr == round - 1
              g == PrimRoot(domain.group_gen_inv, Pow2(log_point_size), rr)
              half == Pow2(rr) \div 2
          IN  \A b \in BlocksOf(round_in, rr), jj \in PairsOf(rr) :
                  LET p == PairP(round_in, rr, b, jj)
                      t == PairT(round_in, rr, g, b, jj)
                      slot == Pow2(rr) * b + jj + 1
                  IN  /\ p.x # t.x
                      /\ ordered_points[slot] = GAdd(p, t)
                      /\ ordered_points[slot + half] = GAdd(p, GNeg(t))

C7_Witness ==
    /\ pc = "round"
    /\ round = 3
    /\ Len(points) = 8

\* C9: in a round where some pair shares an x-coordinate the accumulator is
\* not inverted and no backward pass, later round or rescale runs: the
\* transform ends with FieldError and no output.
C9_FailFastInv ==
    (/\ round >= 1
     /\ round <= log_point_size
     /\ pc # "round"
     /\ SomePairSharesX(round_in, round, G)) =>
        \/ pc \in {"twist", "forward"}
        \/ pc = "invert" /\ acc = 0
        \/ /\ pc = "done"
           /\ result = Err("FieldError")
           /\ inversions = 0

\* C9, with the caller's sequence never written.
C9_FailFast == [](C9_FailFastInv) /\ [][points' = points]_vars

C9_Witness ==
    /\ pc = "done"
    /\ result = Err("FieldError")
    /\ round = 2
    /\ Len(points) = 8

\* C10: one inversion per round; when the backward pass is about to process
\* pair j of chunk i the accumulator is the inverse of the product of x2 - x1
\* over that pair and all pairs before it in forward order, and the stored
\* partials times it are -(y2 + y1)/(x2 - x1) and (y2 - y1)/(x2 - x1).
C10_BatchInversion ==
    /\ pc \in {"twist", "forward", "invert"} => inversions = 0
    /\ pc = "backward" => inversions = 1
    /\ (pc = "round" /\ round >= 2) => inversions = 1
    /\ pc = "backward" =>
          LET b == Max(pending)
              half == Half
              p == PairP(round_in, round, b, j)
              t == PairT(round_in, round, G, b, j)
              d == DeltaX(round_in, round, G, b, j)
              slot2 == K * b + j + half + 1
              s == half * b + j + 1
          IN  /\ d # 0
              /\ FMul(acc, DeltaProduct(round_in, round, G, half * b + j + 1)) = 1
              /\ FMul(ordered_points[slot2].y, acc)
                     = FNeg(FMul(FAdd(t.y, p.y), FInv(d)))
              /\ FMul(scratch_y[s], acc) = FMul(FSub(t.y, p.y), FInv(d))

C10_Witness ==
    /\ pc = "backward"
    /\ round = 2
    /\ Len(points) = 8
    /\ pending = {0}
    /\ j = 0

---------------------------------------------------------------------------
(* bit_reverse applied to its inputs, and applied again to its result      *)
(* (the loop of test_bit_reverse).                                         *)

\* The indices tried for log_n: all of 0..2^log_n - 1 up to 2*SampleBits
\* bits, beyond that those with set bits only in the top and bottom
\* SampleBits positions.
BrIndices(log_n) ==
    IF log_n <= 2 * SampleBits THEN 0..(Pow2(log_n) - 1)
    ELSE {hi * Pow2(log_n - SampleBits) + lo :
              hi \in 0..(Pow2(SampleBits) - 1), lo \in 0..(Pow2(SampleBits) - 1)}

MainIdle ==
    /\ points = << >>
    /\ pc = "off"
    /\ log_point_size = 0
    /\ ordered_points = << >>
    /\ domain = NoDomain
    /\ round = 0
    /\ scratch_x = << >>
    /\ scratch_y = << >>
    /\ acc = 0
    /\ pending = {}
    /\ j = 0
    /\ result = NoResult
    /\ round_in = << >>
    /\ inversions = 0
    /\ fwd_order = << >>
    /\ bwd_order = << >>

InitBR ==
    /\ MainIdle
    /\ br_pc = "input"
    /\ br_log_n \in 1..MaxLogN
    /\ br_index \in BrIndices(br_log_n)
    /\ br_m = BrNone
    /\ br_back = BrNone

\* let m = bit_reverse(i, log_n)
BrReverse ==
    /\ br_pc = "input"
    /\ br_m' = bit_reverse(br_index, br_log_n)
    /\ br_pc' = "reversed"
    /\ UNCHANGED <<br_log_n, br_index, br_back>>
    /\ UNCHANGED mainvars

\* bit_reverse(m, log_n)
BrReverseBack ==
    /\ br_pc = "reversed"
    /\ br_m.ok
    /\ br_back' = bit_reverse(br_m.val, br_log_n)
    /\ br_pc' = "back"
    /\ UNCHANGED <<br_log_n, br_index, br_m>>
    /\ UNCHANGED mainvars

NextBR == BrReverse \/ BrReverseBack

SpecBR == InitBR /\ [][NextBR]_vars

\* Bit b of a natural number.
Bit(n, b) == (n \div Pow2(b)) % 2

RECURSIVE BitSum(_, _, _)
\* Sum over b < n of bit b of index, placed at position log_n - 1 - b.
BitSum(index, log_n, n) ==
    IF n = 0 THEN 0
    ELSE BitSum(index, log_n, n - 1) + Bit(index, n - 1) * Pow2(log_n - n)

\* index with its low log_n bits reversed.
ReverseLowBits(index, log_n) == BitSum(index, log_n, log_n)

\* C4: bit_reverse(i, log_n) is Ok of i with its low log_n bits reversed,
\* for whole-byte and partial-byte log_n alike; for log_n = 3 it maps 0..7
\* to 0, 4, 2, 6, 1, 5, 3, 7.
C4_BitReverse ==
    br_pc \in {"reversed", "back"} =>
        /\ br_m.ok
        /\ br_m.val = ReverseLowBits(br_index, br_log_n)
        /\ br_log_n = 3 => br_m.val = <<0, 4, 2, 6, 1, 5, 3, 7>>[br_index + 1]

C4_Witness ==
    /\ br_pc = "reversed"
    /\ br_log_n = 16
    /\ br_index = 1
    /\ br_m.val = 32768

\* C5: bit_reverse is its own inverse.
C5_Involution ==
    br_pc = "back" => (br_back.ok /\ br_back.val = br_index)

C5_Witness ==
    /\ br_pc = "back"
    /\ br_log_n = 20
    /\ br_index = 3
    /\ br_m.val = 786432
    /\ br_back.val = 3

---------------------------------------------------------------------------
(* The per-chunk units of a round under a free schedule: within a phase    *)
(* the chunks are taken in any order, the phases keep their order (twist,  *)
(* forward pass, inversion, backward pass).                                *)

InitPar == InitMain(ParInputs) /\ BrIdle

\* The root of unity fft_round received in round rr.
RootOfRound(rr) == PrimRoot(domain.group_gen_inv, Pow2(log_point_size), rr)

\* The round just finished left what the sequential fft_round leaves.
RoundFaithful ==
    round >= 2 =>
        LET seq == fft_round(round_in, RootOfRound(round - 1), round - 1)
        IN  seq.ok /\ seq.pts = ordered_points

\* The loop head; a schedule whose round already differs from the
\* sequential result is not followed into the next round.
ParRoundHead == RoundFaithful /\ RoundHead

\* The twist closure on chunk b (utils.rs 76-79); after the last chunk the
\* accumulator and scratch are set up (utils.rs 81-85).
ParTwist(b) ==
    /\ pc = "twist"
    /\ b \in pending
    /\ LET pts == TwistBlock(ordered_points, K, b, G)
       IN  IF pending = {b}
             THEN /\ SetRS(InitRoundState(pts, K))
                  /\ pending' = AllBlocks
                  /\ pc' = "forward"
             ELSE /\ ordered_points' = pts
                  /\ pending' = pending \ {b}
                  /\ UNCHANGED <<scratch_x, scratch_y, acc, pc>>
    /\ UNCHANGED <<points, log_point_size, domain, round, j, result, round_in,
                   inversions, fwd_order, bwd_order>>
    /\ UNCHANGED brvars

\* The forward closure on chunk b (utils.rs 89-106).
ParForward(b) ==
    /\ pc = "forward"
    /\ b \in pending
    /\ SetRS(FwdBlock(RS, K, b))
    /\ pending' = pending \ {b}
    /\ fwd_order' = Append(fwd_order, b)
    /\ pc' = IF pending = {b} THEN "invert" ELSE "forward"
    /\ UNCHANGED <<points, log_point_size, domain, round, j, result, round_in,
                   inversions, bwd_order>>
    /\ UNCHANGED brvars

\* The backward closure on chunk b (utils.rs 115-140).
ParBackward(b) ==
    /\ pc = "backward"
    /\ b \in pending
    /\ SetRS(BwdBlock(RS, K, b))
    /\ pending' = pending \ {b}
    /\ bwd_order' = Append(bwd_order, b)
    /\ pc' = IF pending = {b} THEN "round" ELSE "backward"
    /\ round' = IF pending = {b} THEN round + 1 ELSE round
    /\ UNCHANGED <<points, log_point_size, domain, j, result, round_in,
                   inversions, fwd_order>>
    /\ UNCHANGED brvars

NextPar ==
    \/ Validate
    \/ BuildOrdered
    \/ BuildDomain
    \/ ParRoundHead
    \/ \E b \in pending : ParTwist(b)
    \/ \E b \in pending : ParForward(b)
    \/ Invert
    \/ \E b \in pending : ParBackward(b)
    \/ Rescale

SpecPar == InitPar /\ [][NextPar]_vars

Reverse(s) == [m \in 1..Len(s) |-> s[Len(s) + 1 - m]]

\* The points of chunk b, for chunks of k points.
Chunk(pts, k, b) == SubSeq(pts, k * b + 1, k * b + k)

\* The input of the running round after its twist.
TwistedInput ==
    IF round = 1 THEN round_in
    ELSE [m \in 1..Len(round_in) |->
            LET b == (m - 1) \div K
                jj == (m - 1) % K
            IN  IF jj < Half THEN round_in[m]
                ELSE PairT(round_in, round, G, b, jj - Half)]

RECURSIVE ForwardReplay(_, _)
\* What the forward units leave when they take the chunks order[1..n].
ForwardReplay(order, n) ==
    IF n = 0 THEN InitRoundState(TwistedInput, K)
    ELSE FwdBlock(ForwardReplay(order, n - 1), K, order[n])

\* C8 as stated: whatever the order in which each phase takes the chunks,
\* the round leaves the points the sequential order leaves.
C8_AnyOrder ==
    (pc = "round" /\ round >= 2) =>
        ordered_points = fft_round(round_in, RootOfRound(round - 1), round - 1).pts

\* C8, amended: the units write only their own chunk and scratch slots, and
\* the twist may take the chunks in any order; the forward and backward
\* units also read and update the one accumulator, and the round leaves the
\* sequential result when the backward pass takes the chunks in the reverse
\* of the order the forward pass took them.
C8_ReverseOrder ==
    /\ pc = "twist" =>
          \A b \in AllBlocks :
              Chunk(ordered_points, K, b) =
                  Chunk(IF b \in pending THEN round_in ELSE TwistedInput, K, b)
    /\ pc = "forward" =>
          \A b \in pending :
              /\ Chunk(ordered_points, K, b) = Chunk(TwistedInput, K, b)
              /\ \A jj \in 0..(Half - 1) :
                    /\ scratch_x[Half * b + jj + 1] = 0
                    /\ scratch_y[Half * b + jj + 1] = 0
    /\ pc = "backward" =>
          LET fwd == ForwardReplay(fwd_order, Len(fwd_order))
          IN  \A b \in pending :
                  /\ Chunk(ordered_points, K, b) = Chunk(fwd.pts, K, b)
                  /\ \A jj \in 0..(Half - 1) :
                        /\ scratch_x[Half * b + jj + 1] = fwd.sx[Half * b + jj + 1]
                        /\ scratch_y[Half * b + jj + 1] = fwd.sy[Half * b + jj + 1]
    /\ (pc = "round" /\ round >= 2 /\ bwd_order = Reverse(fwd_order)) =>
          ordered_points =
              fft_round(round_in, RootOfRound(round - 1), round - 1).pts

C8_Witness ==
    /\ pc = "round"
    /\ round = 3
    /\ Len(points) = 8
    /\ fwd_order = <<1, 0>>
    /\ bwd_order = <<0, 1>>

=============================================================================
